---- MODULE Spec2Model ----
(***************************************************************************)
(* Model of the saving-rate logic of                                       *)
(* Documentation/example_notebooks/IndShockConsumerType.py:                *)
(*   - savRteFunc(SomeType, m, t)                      (lines 275-298)     *)
(*   - the aggregate saving-rate expression            (lines 308, 322)    *)
(*       np.mean([savRteFunc(IndShockExample,                              *)
(*                history["mNrm"][t], 0) for t in range(120)], axis = 1)   *)
(*                                                                         *)
(* Numbers.  The code computes in IEEE doubles (Python float / numpy       *)
(* float64).  The model keeps every finite value as an exact rational      *)
(* [n, d] in lowest terms with d > 0, and keeps the three non-finite       *)
(* doubles numpy arithmetic produces: +inf = [1, 0], -inf = [-1, 0] and    *)
(* not-a-number = [0, 0].  Rounding and the sign of zero are not modelled. *)
(*                                                                         *)
(* Arrays.  m is either a scalar or a one-dimensional numpy array (a row   *)
(* of the history); both are records [dim, data] with dim 0 or 1, and the  *)
(* arithmetic of savRteFunc is numpy's element-wise arithmetic.            *)
(***************************************************************************)
EXTENDS Integers, Sequences, FiniteSets, TLC

VARIABLES Rfree, solution, history, call, m, ret, pc, track_vars

vars == <<Rfree, solution, history, call, m, ret, pc, track_vars>>

(***************************************************************************)
(* Bounds of the model.                                                    *)
(***************************************************************************)
\* largest AgentCount (columns of the history) the inputs range over
MaxAgents == 3
\* longest solved policy sequence the inputs range over
MaxSol == 2

(***************************************************************************)
(* Program constants.                                                      *)
(***************************************************************************)
\* range(120) in the aggregate expression
AggRange == 120
\* IdiosyncDict["T_sim"]
T_sim == 120
\* the policy index the aggregate expression passes to savRteFunc
AggPolicyIndex == 0

(***************************************************************************)
(* Doubles as exact rationals, with inf and nan.                           *)
(***************************************************************************)
Abs(x) == IF x < 0 THEN -x ELSE x

Sgn(x) == IF x < 0 THEN -1 ELSE IF x > 0 THEN 1 ELSE 0

RECURSIVE GCD(_, _)
GCD(a, b) == IF b = 0 THEN a ELSE GCD(b, a % b)

\* the double n/d (d > 0) in lowest terms
Fl(n, d) ==
    LET g == GCD(Abs(n), d)
    IN  [n |-> n \div g, d |-> d \div g]

PosInf == [n |-> 1, d |-> 0]
NegInf == [n |-> -1, d |-> 0]
NaN == [n |-> 0, d |-> 0]

IsNaN(x) == x.d = 0 /\ x.n = 0
IsInf(x) == x.d = 0 /\ x.n # 0
IsFinite(x) == x.d > 0

FNeg(x) == [n |-> -x.n, d |-> x.d]

\* x + y of two doubles
FAdd(x, y) ==
    IF IsNaN(x) \/ IsNaN(y) THEN NaN
    ELSE IF IsInf(x) THEN (IF IsInf(y) /\ y.n # x.n THEN NaN ELSE x)
    ELSE IF IsInf(y) THEN y
    ELSE Fl(x.n * y.d + y.n * x.d, x.d * y.d)

\* x - y of two doubles
FSub(x, y) == FAdd(x, FNeg(y))

\* x * y of two doubles
FMul(x, y) ==
    IF IsNaN(x) \/ IsNaN(y) THEN NaN
    ELSE IF IsInf(x) \/ IsInf(y)
         THEN (IF x.n = 0 \/ y.n = 0 THEN NaN
               ELSE [n |-> Sgn(x.n) * Sgn(y.n), d |-> 0])
    ELSE Fl(x.n * y.n, x.d * y.d)

\* a "safe" division that gives 0.0 for a zero divisor
FDiv_zeroOnZero(x, y) ==
    IF IsNaN(x) \/ IsNaN(y) THEN NaN
    ELSE IF IsInf(y) THEN (IF IsInf(x) THEN NaN ELSE Fl(0, 1))
    ELSE IF y.n = 0 THEN Fl(0, 1)
    ELSE IF IsInf(x) THEN [n |-> Sgn(x.n) * Sgn(y.n), d |-> 0]
    ELSE Fl(x.n * y.d * Sgn(y.n), x.d * Abs(y.n))

\* x / y of numpy doubles: a zero divisor gives inf or nan (with a
\* RuntimeWarning), never an exception
FDiv(x, y) ==
    IF IsNaN(x) \/ IsNaN(y) THEN NaN
    ELSE IF IsInf(y) THEN (IF IsInf(x) THEN NaN ELSE Fl(0, 1))
    ELSE IF y.n = 0
         THEN (IF x.n = 0 THEN NaN ELSE [n |-> Sgn(x.n), d |-> 0])
    ELSE IF IsInf(x) THEN [n |-> Sgn(x.n) * Sgn(y.n), d |-> 0]
    ELSE Fl(x.n * y.d * Sgn(y.n), x.d * Abs(y.n))

\* x < y, x <= y of two doubles (every comparison with nan is false)
FLt(x, y) ==
    /\ ~IsNaN(x) /\ ~IsNaN(y)
    /\ IF IsInf(x) THEN x.n < 0 /\ y # x
       ELSE IF IsInf(y) THEN y.n > 0
       ELSE x.n * y.d < y.n * x.d

FLe(x, y) == ~IsNaN(x) /\ ~IsNaN(y) /\ (x = y \/ FLt(x, y))

Zero == Fl(0, 1)
One == Fl(1, 1)

(***************************************************************************)
(* numpy scalars and one-dimensional arrays, element-wise arithmetic.      *)
(***************************************************************************)
Scalar(x) == [dim |-> 0, data |-> <<x>>]
Array(row) == [dim |-> 1, data |-> row]

\* array (op) Python float
NpSubF(a, y) == [dim |-> a.dim, data |-> [i \in DOMAIN a.data |-> FSub(a.data[i], y)]]
NpAddF(a, y) == [dim |-> a.dim, data |-> [i \in DOMAIN a.data |-> FAdd(a.data[i], y)]]
NpRMulF(x, a) == [dim |-> a.dim, data |-> [i \in DOMAIN a.data |-> FMul(x, a.data[i])]]
\* array (op) array of the same shape
NpSub(a, b) == [dim |-> a.dim, data |-> [i \in DOMAIN a.data |-> FSub(a.data[i], b.data[i])]]
NpDiv(a, b) == [dim |-> a.dim, data |-> [i \in DOMAIN a.data |-> FDiv(a.data[i], b.data[i])]]

(***************************************************************************)
(* Python control flow: a call either returns a value or raises.           *)
(***************************************************************************)
Return(v) == [exc |-> "none", val |-> v]
Raise(e) == [exc |-> e, val |-> <<>>]

\* an index below zero rejected, as in a language without negative indexing
PyGetItem_noNegative(seq, t) ==
    IF 0 <= t /\ t < Len(seq) THEN Return(seq[t + 1]) ELSE Raise("IndexError")

\* seq[t] of a Python list or numpy array (0-based; a negative t counts
\* from the end; anything else raises IndexError)
PyGetItem(seq, t) ==
    IF 0 <= t /\ t < Len(seq) THEN Return(seq[t + 1])
    ELSE IF -Len(seq) <= t /\ t < 0 THEN Return(seq[Len(seq) + t + 1])
    ELSE Raise("IndexError")

(***************************************************************************)
(* The solved policy.  solution[t].cFunc is a callable of the library; the *)
(* model ranges over a small family of consumption functions, named by     *)
(* strings.  As the library's interpolators do, cFunc maps a scalar to a   *)
(* numpy scalar and an array to an array, element-wise.                    *)
(***************************************************************************)
CFuncNames == {"identity", "nine_tenths", "declining"}

\* the value of the named consumption function at one m
cFuncAt(name, x) ==
    CASE name = "identity" -> x
      [] name = "nine_tenths" -> FMul(Fl(9, 10), x)
      [] name = "declining" -> FSub(Fl(3, 1), FMul(Fl(1, 2), x))

cFunc(name, a) == [dim |-> a.dim, data |-> [i \in DOMAIN a.data |-> cFuncAt(name, a.data[i])]]

(***************************************************************************)
(* Variants of savRteFunc with one plausible slip each; the properties     *)
(* below are checked to tell the code from them.                           *)
(***************************************************************************)
\* income taken as (Rfree - 1) * m + 1: the reference level 1.0 not subtracted
savRteFunc_incOff(SomeType, mArg, t) ==
    LET inc == NpAddF(NpRMulF(FSub(SomeType.Rfree, One), mArg), One)
        sol == PyGetItem(SomeType.solution, t)
    IN  IF sol.exc # "none"
        THEN [out |-> Raise(sol.exc), SomeType |-> SomeType, m |-> mArg]
        ELSE LET cns == cFunc(sol.val, mArg)
                 sav == NpSub(inc, cns)
                 savRte == NpDiv(sav, inc)
             IN  [out |-> Return(savRte), SomeType |-> SomeType, m |-> mArg]

\* saving taken as cns - inc
savRteFunc_savSwap(SomeType, mArg, t) ==
    LET inc == NpAddF(NpRMulF(FSub(SomeType.Rfree, One), NpSubF(mArg, One)), One)
        sol == PyGetItem(SomeType.solution, t)
    IN  IF sol.exc # "none"
        THEN [out |-> Raise(sol.exc), SomeType |-> SomeType, m |-> mArg]
        ELSE LET cns == cFunc(sol.val, mArg)
                 sav == NpSub(cns, inc)
                 savRte == NpDiv(sav, inc)
             IN  [out |-> Return(savRte), SomeType |-> SomeType, m |-> mArg]

\* a domain check added: income that is not positive raises ValueError
savRteFunc_domainCheck(SomeType, mArg, t) ==
    LET inc == NpAddF(NpRMulF(FSub(SomeType.Rfree, One), NpSubF(mArg, One)), One)
        sol == PyGetItem(SomeType.solution, t)
    IN  IF \E i \in DOMAIN inc.data : ~FLt(Zero, inc.data[i])
        THEN [out |-> Raise("ValueError"), SomeType |-> SomeType, m |-> mArg]
        ELSE IF sol.exc # "none"
        THEN [out |-> Raise(sol.exc), SomeType |-> SomeType, m |-> mArg]
        ELSE LET cns == cFunc(sol.val, mArg)
                 sav == NpSub(inc, cns)
                 savRte == NpDiv(sav, inc)
             IN  [out |-> Return(savRte), SomeType |-> SomeType, m |-> mArg]

\* m -= 1.0 in place of m - 1.0: the caller's array is overwritten
savRteFunc_inPlace(SomeType, mArg, t) ==
    LET mNew == NpSubF(mArg, One)
        inc == NpAddF(NpRMulF(FSub(SomeType.Rfree, One), mNew), One)
        sol == PyGetItem(SomeType.solution, t)
    IN  IF sol.exc # "none"
        THEN [out |-> Raise(sol.exc), SomeType |-> SomeType, m |-> mNew]
        ELSE LET cns == cFunc(sol.val, mNew)
                 sav == NpSub(inc, cns)
                 savRte == NpDiv(sav, inc)
             IN  [out |-> Return(savRte), SomeType |-> SomeType, m |-> mNew]

\* the gross return factor used where the net one belongs: Rfree * (m - 1) + 1
savRteInc_grossReturn(SomeType, mArg) ==
    NpAddF(NpRMulF(SomeType.Rfree, NpSubF(mArg, One)), One)

\* inc of savRteFunc (lines 292-294): (SomeType.Rfree - 1.0) * (m - 1.0) + 1.0,
\* the divisor of line 297
savRteInc(SomeType, mArg) ==
    NpAddF(NpRMulF(FSub(SomeType.Rfree, One), NpSubF(mArg, One)), One)

(***************************************************************************)
(* savRteFunc (lines 275-298).  SomeType is the agent type, read through   *)
(* its attributes Rfree and solution; m is a numpy scalar/array.  The      *)
(* result carries what the call leaves behind: the outcome, and the        *)
(* objects SomeType and m as they are when the call ends.                  *)
(***************************************************************************)
savRteFunc(SomeType, mArg, t) ==
    LET inc == savRteInc(SomeType, mArg)
        sol == PyGetItem(SomeType.solution, t)
    IN  IF sol.exc # "none"
        THEN [out |-> Raise(sol.exc), SomeType |-> SomeType, m |-> mArg]
        ELSE LET cns == cFunc(sol.val, mArg)
                 sav == NpSub(inc, cns)
                 savRte == NpDiv(sav, inc)
             IN  [out |-> Return(savRte), SomeType |-> SomeType, m |-> mArg]

(***************************************************************************)
(* The aggregate saving-rate expression (lines 308 and 322):               *)
(*   np.mean([savRteFunc(IndShockExample,                                  *)
(*            IndShockExample.history["mNrm"][t], 0)                       *)
(*            for t in range(120)], axis = 1)                              *)
(***************************************************************************)
RECURSIVE SumTo(_, _)
\* row[1] + ... + row[k]
SumTo(row, k) == IF k = 0 THEN Zero ELSE FAdd(SumTo(row, k - 1), row[k])

\* a placeholder 0.0 for a row without agents
NpMean_zeroOnEmpty(row) ==
    IF Len(row) = 0 THEN Zero ELSE FDiv(SumTo(row, Len(row)), Fl(Len(row), 1))

\* np.sum in place of np.mean
NpMean_sum(row) == SumTo(row, Len(row))

\* np.mean of one row (axis = 1): the sum over the count; numpy divides
\* 0.0 by 0 for an empty row, which is nan (with a RuntimeWarning)
NpMean(row) == FDiv(SumTo(row, Len(row)), Fl(Len(row), 1))

\* one element of the list comprehension: row t of the history is read and
\* savRteFunc is applied to it; the result holds the one-element list
ListElem(SomeType, t) ==
    LET row == PyGetItem(SomeType.history, t)
    IN  IF row.exc # "none"
        THEN [out |-> Raise(row.exc), SomeType |-> SomeType]
        ELSE LET r == savRteFunc(SomeType, Array(row.val), AggPolicyIndex)
             IN  IF r.out.exc # "none"
                 THEN [out |-> Raise(r.out.exc), SomeType |-> r.SomeType]
                 ELSE [out |-> Return(<<r.out.val.data>>),
                       SomeType |-> [r.SomeType EXCEPT !.history[t + 1] = r.m.data]]

RECURSIVE ListComp(_, _, _)
\* the list comprehension over t = lo, lo + 1, ..., hi - 1 in this order,
\* each element evaluated on the agent type as the earlier ones left it and
\* the first exception ending the loop.  The range is split in halves only
\* to keep the evaluation shallow; the order of the elements is the loop's.
ListComp(SomeType, lo, hi) ==
    IF lo >= hi THEN [out |-> Return(<<>>), SomeType |-> SomeType]
    ELSE IF hi = lo + 1 THEN ListElem(SomeType, lo)
    ELSE LET mid == (lo + hi) \div 2
             left == ListComp(SomeType, lo, mid)
         IN  IF left.out.exc # "none" THEN left
             ELSE LET right == ListComp(left.SomeType, mid, hi)
                  IN  IF right.out.exc # "none" THEN right
                      ELSE [out |-> Return(left.out.val \o right.out.val),
                            SomeType |-> right.SomeType]

aggregate(SomeType) ==
    LET rows == ListComp(SomeType, 0, AggRange)
    IN  IF rows.out.exc # "none"
        THEN rows
        ELSE [out |-> Return(Array([k \in DOMAIN rows.out.val |-> NpMean(rows.out.val[k])])),
              SomeType |-> rows.SomeType]

(***************************************************************************)
(* Inputs.  The agent type after solve() and simulate(): Rfree, the solved *)
(* policy sequence and the market-resources history history["mNrm"], one   *)
(* row per simulated period and one column per agent.                      *)
(***************************************************************************)
RfreeSet == {Fl(103, 100), Fl(3, 2), Fl(2, 1)}

\* market-resources values -3.0 .. 3.0
MVals == <<Fl(-3, 1), Fl(-2, 1), Fl(-1, 1), Fl(0, 1), Fl(1, 1), Fl(2, 1), Fl(3, 1)>>

MGrid == {MVals[i] : i \in DOMAIN MVals}

SolutionSet == UNION {[1..n -> CFuncNames] : n \in 1..MaxSol}

\* period indices passed to savRteFunc: valid, negative, and out of range
TRange == (-(MaxSol + 1))..(MaxSol + 1)

\* numbers of simulated periods: the notebook's T_sim, one less, one more
TSimSet == {T_sim - 1, T_sim, T_sim + 1}

\* the history of T periods and N agents: agent i holds MVals in turn,
\* so neighbouring rows differ and every row of MVals values occurs
HistoryOf(T, N) == [t \in 1..T |-> [i \in 1..N |-> MVals[((t + i - 2) % Len(MVals)) + 1]]]

HistorySet == {HistoryOf(T, N) : T \in TSimSet, N \in 0..MaxAgents}

\* IndShockExample.track_vars as line 263 sets it
TrackVars == {"aNrm", "mNrm", "cNrm", "pLvl"}

IndShockExample == [Rfree |-> Rfree, solution |-> solution, history |-> history]

NoArray == Array(<<>>)

\* no call is in progress and no result is held
NoCall == [fn |-> "none", m |-> NoArray, t |-> AggPolicyIndex]

Init ==
    /\ Rfree \in RfreeSet
    /\ solution \in SolutionSet
    /\ history \in HistorySet
    /\ call = NoCall
    /\ m = NoArray
    /\ ret = Return(NoArray)
    /\ pc = "simulated"
    /\ track_vars = TrackVars

\* savRteFunc(IndShockExample, m, t) on a scalar m
CallSavRteFunc ==
    \E x \in MGrid, t \in TRange :
        LET r == savRteFunc(IndShockExample, Scalar(x), t)
        IN  /\ call = NoCall
            /\ call' = [fn |-> "savRteFunc", m |-> Scalar(x), t |-> t]
            /\ ret' = r.out
            /\ m' = r.m
            /\ Rfree' = r.SomeType.Rfree
            /\ solution' = r.SomeType.solution
            /\ history' = r.SomeType.history
            /\ UNCHANGED <<pc, track_vars>>

\* savRteFunc(IndShockExample, IndShockExample.history["mNrm"][k], 0): one
\* element of the list comprehension, on a row of agents
CallSavRteFuncRow ==
    \E k \in 0..(Len(MVals) - 1) :
        LET row == PyGetItem(history, k)
            r == savRteFunc(IndShockExample, Array(row.val), AggPolicyIndex)
        IN  /\ call = NoCall
            /\ row.exc = "none"
            /\ call' = [fn |-> "savRteFunc", m |-> Array(row.val), t |-> AggPolicyIndex]
            /\ ret' = r.out
            /\ m' = r.m
            /\ Rfree' = r.SomeType.Rfree
            /\ solution' = r.SomeType.solution
            /\ history' = [r.SomeType.history EXCEPT ![k + 1] = r.m.data]
            /\ UNCHANGED <<pc, track_vars>>

\* the aggregate saving-rate expression
CallAggregate ==
    LET r == aggregate(IndShockExample)
    IN  /\ call = NoCall
        /\ call' = [fn |-> "aggregate", m |-> NoArray, t |-> AggPolicyIndex]
        /\ ret' = r.out
        /\ m' = NoArray
        /\ Rfree' = r.SomeType.Rfree
        /\ solution' = r.SomeType.solution
        /\ history' = r.SomeType.history
        /\ UNCHANGED <<pc, track_vars>>

\* the top level is done with the result of the last call (the cell ends);
\* the agent type stays as the call left it
Discard ==
    /\ call # NoCall
    /\ call' = NoCall
    /\ m' = NoArray
    /\ ret' = Return(NoArray)
    /\ UNCHANGED <<Rfree, solution, history, pc, track_vars>>

Next == CallSavRteFunc \/ CallSavRteFuncRow \/ CallAggregate \/ Discard

Spec == Init /\ [][Next]_vars

(***************************************************************************)
(* Properties.  Income and consumption are restated here in integers, so   *)
(* that the properties do not lean on the model's own arithmetic:          *)
(* income = IncN / IncD with IncD > 0, for Rfree = R.n / R.d, m = x.n/x.d. *)
(***************************************************************************)
IncN(R, x) == (R.n - R.d) * (x.n - x.d) + R.d * x.d
IncD(R, x) == R.d * x.d

\* r is the finite number (income - c) / income, income being nonzero
IsRateOf(r, R, x, c) ==
    /\ IsFinite(r)
    /\ r.n * (IncN(R, x) * c.d) = r.d * (IncN(R, x) * c.d - c.n * IncD(R, x))

\* consumption c strictly exceeds, or is strictly below, income
ConsAboveInc(R, x, c) == c.n * IncD(R, x) > IncN(R, x) * c.d
ConsBelowInc(R, x, c) == c.n * IncD(R, x) < IncN(R, x) * c.d

\* a call of savRteFunc has returned or raised; t is a valid index in the
\* sense of the contract, 0 <= t < len(solution)
SavRteCalled == call.fn = "savRteFunc"
ValidT == call.t \in 0..(Len(solution) - 1)
TheCFunc == solution[call.t + 1]

\* C1: savRteFunc with a valid t returns, for every m (each element of a
\* row alike) whose income (R - 1) * (m - 1) + 1 is nonzero, exactly
\* (income - cFunc[t](m)) / income; in particular R = 1.03, m = 2.0,
\* cFunc[t](2.0) = 1.8 gives -0.77 / 1.03, and m = 1 with cFunc[t](1) = 1
\* gives 0.
C1_SavRteIsSavingOverIncome ==
    (SavRteCalled /\ ValidT) =>
        /\ ret.exc = "none"
        /\ ret.val.dim = call.m.dim
        /\ DOMAIN ret.val.data = DOMAIN call.m.data
        /\ \A i \in DOMAIN call.m.data :
              LET x == call.m.data[i]
                  c == cFuncAt(TheCFunc, x)
                  r == ret.val.data[i]
              IN  /\ IncN(Rfree, x) # 0 => IsRateOf(r, Rfree, x, c)
                  /\ (Rfree = Fl(103, 100) /\ x = Fl(2, 1) /\ c = Fl(18, 10))
                        => r = Fl(-77, 103)
                  /\ (x = One /\ c = One) => r = Zero

\* the scenario R = 1.03, m = 2.0, cFunc[t](2.0) = 1.8 has been computed
C1_Witness ==
    /\ SavRteCalled /\ ValidT /\ call.m.dim = 0
    /\ Rfree = Fl(103, 100)
    /\ call.m.data[1] = Fl(2, 1)
    /\ cFuncAt(TheCFunc, call.m.data[1]) = Fl(18, 10)
    /\ ret = Return(Scalar(Fl(-77, 103)))

\* the consumption function is non-decreasing with slope at most 1 (on the
\* grid of m), resp. non-negative and non-increasing between two points
NonDecreasingSlopeLeOne(name) ==
    \A x \in MGrid, y \in MGrid :
        FLe(x, y) =>
            /\ FLe(cFuncAt(name, x), cFuncAt(name, y))
            /\ FLe(FSub(cFuncAt(name, y), cFuncAt(name, x)), FSub(y, x))

RfreeAboveOne == Rfree.n > Rfree.d

\* savRteFunc has been applied to a row of agents with a valid t: the
\* elements of the row are values of m under the same model and the same t
RowCalled == SavRteCalled /\ ValidT /\ call.m.dim = 1 /\ ret.exc = "none"

\* C2 as stated: for R > 1 and a consumption function that is non-decreasing
\* in m with slope at most 1, m1 <= m2 implies savRteFunc(model, m1, t) <=
\* savRteFunc(model, m2, t).  (Taken here only where income is positive at
\* both points, the case most favourable to the statement.)
C2_Original ==
    (RowCalled /\ RfreeAboveOne /\ NonDecreasingSlopeLeOne(TheCFunc)) =>
        \A i \in DOMAIN call.m.data, j \in DOMAIN call.m.data :
            (/\ FLe(call.m.data[i], call.m.data[j])
             /\ IncN(Rfree, call.m.data[i]) > 0
             /\ IncN(Rfree, call.m.data[j]) > 0)
                => FLe(ret.val.data[i], ret.val.data[j])

\* C2 amended: for R > 1, m1 <= m2 with positive income at m1 and
\* cFunc[t](m1) >= cFunc[t](m2) >= 0 (consumption non-negative and not rising
\* from m1 to m2) implies savRteFunc(model, m1, t) <= savRteFunc(model, m2, t)
C2_NonDecreasingWhenConsumptionDoesNotRise ==
    (RowCalled /\ RfreeAboveOne) =>
        \A i \in DOMAIN call.m.data, j \in DOMAIN call.m.data :
            (/\ FLe(call.m.data[i], call.m.data[j])
             /\ IncN(Rfree, call.m.data[i]) > 0
             /\ FLe(cFuncAt(TheCFunc, call.m.data[j]), cFuncAt(TheCFunc, call.m.data[i]))
             /\ FLe(Zero, cFuncAt(TheCFunc, call.m.data[j])))
                => FLe(ret.val.data[i], ret.val.data[j])

\* a row with m1 < m2, falling consumption and a strictly higher rate at m2
C2_Witness ==
    /\ RowCalled /\ RfreeAboveOne
    /\ \E i \in DOMAIN call.m.data, j \in DOMAIN call.m.data :
          /\ FLt(call.m.data[i], call.m.data[j])
          /\ IncN(Rfree, call.m.data[i]) > 0
          /\ FLt(cFuncAt(TheCFunc, call.m.data[j]), cFuncAt(TheCFunc, call.m.data[i]))
          /\ FLe(Zero, cFuncAt(TheCFunc, call.m.data[j]))
          /\ FLt(ret.val.data[i], ret.val.data[j])

\* the saving rate of one agent, restated: (income - c) / income as a double
ExpRate(R, name, x) ==
    LET c == cFuncAt(name, x)
        num == IncN(R, x) * c.d - c.n * IncD(R, x)
        den == IncN(R, x) * c.d
    IN  IF den = 0 THEN [n |-> Sgn(num), d |-> 0]
        ELSE Fl(num * Sgn(den), Abs(den))

RECURSIVE ExpSum(_, _, _, _)
\* the sum of the saving rates of the first k agents of a row
ExpSum(R, name, row, k) ==
    IF k = 0 THEN Zero ELSE FAdd(ExpSum(R, name, row, k - 1), ExpRate(R, name, row[k]))

\* the arithmetic mean over the agents of a non-empty row
ExpMean(R, name, row) == FDiv(ExpSum(R, name, row, Len(row)), Fl(Len(row), 1))

AggReturned == call.fn = "aggregate" /\ ret.exc = "none"

\* C3: every value the aggregator returns for a time row (of at least one
\* agent) is the arithmetic mean over the agents of that row of savRteFunc
\* applied to the agent's m, with the policy index 0 for every row and
\* agent; the row m = [1, 2, 3] with cFunc(m) = m and R = 1.03 gives the
\* mean of [0, -97/103, -194/106], which is -5044/5459 (about -0.924).
C3_RowValueIsMeanOfRates ==
    AggReturned =>
        \A k \in DOMAIN ret.val.data :
            /\ k \in DOMAIN history
            /\ history[k] # <<>> =>
                  ret.val.data[k] = ExpMean(Rfree, solution[1], history[k])
            /\ (/\ history[k] = <<Fl(1, 1), Fl(2, 1), Fl(3, 1)>>
                /\ solution[1] = "identity"
                /\ Rfree = Fl(103, 100))
                  => ret.val.data[k] = Fl(-5044, 5459)

\* the aggregator has returned the mean of the scenario's row
C3_Witness ==
    /\ AggReturned
    /\ Rfree = Fl(103, 100)
    /\ solution[1] = "identity"
    /\ Len(solution) > 1 /\ solution[2] # "identity"
    /\ \E k \in DOMAIN ret.val.data :
          /\ history[k] = <<Fl(1, 1), Fl(2, 1), Fl(3, 1)>>
          /\ ret.val.data[k] = Fl(-5044, 5459)

\* C4 as stated: for any number T of simulated periods the aggregator
\* returns exactly T values, the k-th computed from the k-th history row
C4_OneValuePerSimulatedPeriod ==
    call.fn = "aggregate" =>
        /\ ret.exc = "none"
        /\ Len(ret.val.data) = Len(history)
        /\ \A k \in DOMAIN ret.val.data :
              history[k] # <<>> =>
                  ret.val.data[k] = ExpMean(Rfree, solution[1], history[k])

\* C5 as stated: savRteFunc with a t that is not a valid non-negative index
\* into the policy sequence fails with an invalid-index error and returns
\* no value
C5_Original ==
    (SavRteCalled /\ ~ValidT) => ret.exc = "IndexError"

\* C5 amended: savRteFunc with t >= len(solution) or t < -len(solution)
\* raises IndexError and returns no value; with -len(solution) <= t < 0 no
\* error is raised: Python counts the index from the end, and the value
\* returned is the saving rate under solution[len(solution) + t]
C5_IndexErrorOutsidePythonRange ==
    SavRteCalled =>
        /\ (call.t >= Len(solution) \/ call.t < -Len(solution))
              => ret = Raise("IndexError")
        /\ (-Len(solution) <= call.t /\ call.t < 0) =>
              /\ ret.exc = "none"
              /\ \A i \in DOMAIN call.m.data :
                    ret.val.data[i] =
                        ExpRate(Rfree, solution[Len(solution) + call.t + 1], call.m.data[i])

\* t = -1 on a two-period solution whose policies differ: the value returned
\* is the rate under the last policy, not the first
C5_Witness ==
    /\ SavRteCalled /\ call.t = -1 /\ Len(solution) = 2
    /\ ret.exc = "none"
    /\ ret.val.data[1] = ExpRate(Rfree, solution[2], call.m.data[1])
    /\ ret.val.data[1] # ExpRate(Rfree, solution[1], call.m.data[1])

AggCalled == call.fn = "aggregate"
NoAgents == \A k \in DOMAIN history : history[k] = <<>>

PolicyUsed ==
    solution[IF call.t >= 0 THEN call.t + 1 ELSE Len(solution) + call.t + 1]

SavRteReturned == SavRteCalled /\ ret.exc = "none"

\* C7: when income (R - 1) * (m - 1) + 1 is zero, savRteFunc hands the
\* caller an infinite or not-a-number result, never a finite saving rate,
\* for a scalar m and for each such element of a row; the aggregator's
\* value for a row holding such an agent is not finite either
C7_ZeroIncomeIsNotFinite ==
    /\ SavRteReturned =>
          \A i \in DOMAIN call.m.data :
              IncN(Rfree, call.m.data[i]) = 0 =>
                  /\ ~IsFinite(ret.val.data[i])
                  /\ ret.val.data[i] \in {PosInf, NegInf, NaN}
    /\ AggReturned =>
          \A k \in DOMAIN ret.val.data :
              (\E i \in DOMAIN history[k] : IncN(Rfree, history[k][i]) = 0)
                  => ret.val.data[k] \in {PosInf, NegInf, NaN}

\* a row with a zero-income agent has been evaluated; its element is inf or
\* nan while another element of the row is finite
C7_Witness ==
    /\ SavRteReturned /\ call.m.dim = 1
    /\ \E i \in DOMAIN call.m.data, j \in DOMAIN call.m.data :
          /\ IncN(Rfree, call.m.data[i]) = 0
          /\ ~IsFinite(ret.val.data[i])
          /\ IsFinite(ret.val.data[j])

\* C8 as stated: when income is negative the saving-rate computation
\* signals a domain error to the caller and returns no finite saving rate
C8_Original ==
    (SavRteCalled /\ ValidT /\ call.m.dim = 0 /\ IncN(Rfree, call.m.data[1]) < 0)
        => (ret.exc # "none" \/ ~IsFinite(ret.val.data[1]))

\* C8 amended: when income is negative savRteFunc signals no error: it
\* returns the finite value (income - cFunc[t](m)) / income to the caller
C8_NegativeIncomeReturnsFiniteRatio ==
    (SavRteCalled /\ ValidT) =>
        \A i \in DOMAIN call.m.data :
            IncN(Rfree, call.m.data[i]) < 0 =>
                /\ ret.exc = "none"
                /\ IsRateOf(ret.val.data[i], Rfree, call.m.data[i],
                            cFuncAt(TheCFunc, call.m.data[i]))

\* a scalar call with negative income has returned a finite value
C8_Witness ==
    /\ SavRteCalled /\ ValidT /\ call.m.dim = 0
    /\ IncN(Rfree, call.m.data[1]) < 0
    /\ ret.exc = "none"
    /\ IsFinite(ret.val.data[1])

\* C9 as stated: whenever savRteFunc returns a negative value, consumption
\* cFunc[t](m) strictly exceeds income
C9_Original ==
    SavRteReturned =>
        \A i \in DOMAIN call.m.data :
            FLt(ret.val.data[i], Zero) =>
                ConsAboveInc(Rfree, call.m.data[i], cFuncAt(PolicyUsed, call.m.data[i]))

\* C9 amended: whenever savRteFunc returns a negative value (minus infinity
\* included), consumption strictly exceeds income if income is positive or
\* zero, and consumption is strictly below income if income is negative
C9_NegativeRateBySignOfIncome ==
    SavRteReturned =>
        \A i \in DOMAIN call.m.data :
            LET x == call.m.data[i]
                c == cFuncAt(PolicyUsed, x)
            IN  FLt(ret.val.data[i], Zero) =>
                    \/ IncN(Rfree, x) >= 0 /\ ConsAboveInc(Rfree, x, c)
                    \/ IncN(Rfree, x) < 0 /\ ConsBelowInc(Rfree, x, c)

\* a negative value has been returned for an agent with negative income who
\* consumes less than that income
C9_Witness ==
    /\ SavRteReturned
    /\ \E i \in DOMAIN call.m.data :
          /\ FLt(ret.val.data[i], Zero)
          /\ IsFinite(ret.val.data[i])
          /\ IncN(Rfree, call.m.data[i]) < 0
          /\ ConsBelowInc(Rfree, call.m.data[i], cFuncAt(PolicyUsed, call.m.data[i]))

\* C10: savRteFunc and the aggregator are pure: a call, returning or
\* raising, leaves Rfree, the solution sequence, the history and the object
\* passed as m unchanged, and calling again with the inputs as the call left
\* them gives the same outcome
C10_CallsArePure ==
    [][call' # NoCall =>
          /\ Rfree' = Rfree
          /\ solution' = solution
          /\ history' = history
          /\ m' = call'.m
          /\ call'.fn = "savRteFunc" =>
                savRteFunc(IndShockExample', m', call'.t).out = ret'
          /\ call'.fn = "aggregate" =>
                aggregate(IndShockExample').out = ret']_vars

\* a call on a history row has returned; the row is still in the history
C10_Witness ==
    /\ SavRteCalled /\ call.m.dim = 1 /\ call.m.data # <<>>
    /\ ret.exc = "none"
    /\ m = call.m
    /\ \E k \in DOMAIN history : history[k] = m.data

\* not-a-number arises as well: zero income and zero consumption
C7_NaNReached ==
    /\ SavRteReturned /\ call.m.dim = 0
    /\ IncN(Rfree, call.m.data[1]) = 0
    /\ ret.val.data[1] = NaN

(***************************************************************************)
(* The notebook as a script: its cells run top to bottom, each statement   *)
(* returning before the next starts; pc is the last statement completed.   *)
(* Cells that only print or plot other data are left out.  What solve(),   *)
(* initialize_sim() and simulate() leave in the agent type is the          *)
(* library's doing: solve() fills solution with one policy (cycles = 0,    *)
(* T_cycle = 1), simulate() fills history["mNrm"], if track_vars names it, *)
(* with T_sim rows of AgentCount values, none below the borrowing          *)
(* constraint BoroCnstArt = 0.                                             *)
(***************************************************************************)
\* IdiosyncDict["Rfree"]
IdiosyncRfree == Fl(103, 100)

PcOrder ==
    <<"start", "constructed", "solved", "tracked", "sim_initialized",
      "simulated", "cfunc_evaluated", "aggregated", "plotted">>

Rank(p) == CHOOSE i \in DOMAIN PcOrder : PcOrder[i] = p

\* simulated market resources: values of MVals not below BoroCnstArt = 0
NonNegMVals == SelectSeq(MVals, LAMBDA x : FLe(Zero, x))

\* a simulated history of T_sim periods and N agents, agent i holding the
\* values in turn from position s on
SimHistoryOf(N, s) ==
    [t \in 1..T_sim |->
        [i \in 1..N |-> NonNegMVals[((t + i + s) % Len(NonNegMVals)) + 1]]]

SimHistorySet == {SimHistoryOf(N, s) : N \in 1..MaxAgents, s \in 1..Len(NonNegMVals)}

InitNotebook ==
    /\ pc = "start"
    /\ Rfree = IdiosyncRfree
    /\ solution = <<>>
    /\ history = <<>>
    /\ track_vars = {}
    /\ call = NoCall
    /\ m = NoArray
    /\ ret = Return(NoArray)

\* lines 178-180: IndShockExample = IndShockConsumerType(**IdiosyncDict)
NbConstruct ==
    /\ pc = "start"
    /\ pc' = "constructed"
    /\ Rfree' = IdiosyncRfree
    /\ UNCHANGED <<solution, history, track_vars, call, m, ret>>

\* line 181: IndShockExample.solve()
NbSolve ==
    /\ pc = "constructed"
    /\ pc' = "solved"
    /\ \E c \in CFuncNames : solution' = <<c>>
    /\ UNCHANGED <<Rfree, history, track_vars, call, m, ret>>

\* line 263: IndShockExample.track_vars = ["aNrm", "mNrm", "cNrm", "pLvl"]
NbSetTrackVars ==
    /\ pc = "solved"
    /\ pc' = "tracked"
    /\ track_vars' = TrackVars
    /\ UNCHANGED <<Rfree, solution, history, call, m, ret>>

\* line 264: IndShockExample.initialize_sim()
NbInitializeSim ==
    /\ pc = "tracked"
    /\ pc' = "sim_initialized"
    /\ UNCHANGED <<Rfree, solution, history, track_vars, call, m, ret>>

\* line 265: IndShockExample.simulate()
NbSimulate ==
    /\ pc = "sim_initialized"
    /\ pc' = "simulated"
    /\ IF "mNrm" \in track_vars
       THEN history' \in SimHistorySet
       ELSE history' = history
    /\ UNCHANGED <<Rfree, solution, track_vars, call, m, ret>>

\* line 305: IndShockExample.solution[0].cFunc(2)
NbEvalCFunc ==
    LET sol == PyGetItem(solution, AggPolicyIndex)
    IN  /\ pc = "simulated"
        /\ pc' = "cfunc_evaluated"
        /\ call' = [fn |-> "cFunc", m |-> Scalar(Fl(2, 1)), t |-> AggPolicyIndex]
        /\ m' = Scalar(Fl(2, 1))
        /\ ret' = IF sol.exc # "none" THEN Raise(sol.exc)
                  ELSE Return(cFunc(sol.val, Scalar(Fl(2, 1))))
        /\ UNCHANGED <<Rfree, solution, history, track_vars>>

\* the aggregate expression run where the script has only solved the model
NbAggregate_beforeSimulate ==
    LET r == aggregate(IndShockExample)
    IN  /\ pc = "solved"
        /\ pc' = "aggregated"
        /\ call' = [fn |-> "aggregate", m |-> NoArray, t |-> AggPolicyIndex]
        /\ ret' = r.out
        /\ m' = NoArray
        /\ Rfree' = r.SomeType.Rfree
        /\ solution' = r.SomeType.solution
        /\ history' = r.SomeType.history
        /\ UNCHANGED track_vars

\* line 308: the aggregate saving-rate expression
NbAggregate ==
    LET r == aggregate(IndShockExample)
    IN  /\ pc = "cfunc_evaluated"
        /\ pc' = "aggregated"
        /\ call' = [fn |-> "aggregate", m |-> NoArray, t |-> AggPolicyIndex]
        /\ ret' = r.out
        /\ m' = NoArray
        /\ Rfree' = r.SomeType.Rfree
        /\ solution' = r.SomeType.solution
        /\ history' = r.SomeType.history
        /\ UNCHANGED track_vars

\* line 322: the aggregate saving-rate expression again, plotted
NbPlotAggregate ==
    LET r == aggregate(IndShockExample)
    IN  /\ pc = "aggregated"
        /\ ret.exc = "none"
        /\ pc' = "plotted"
        /\ call' = [fn |-> "aggregate", m |-> NoArray, t |-> AggPolicyIndex]
        /\ ret' = r.out
        /\ m' = NoArray
        /\ Rfree' = r.SomeType.Rfree
        /\ solution' = r.SomeType.solution
        /\ history' = r.SomeType.history
        /\ UNCHANGED track_vars

NextNotebook ==
    \/ NbConstruct
    \/ NbSolve
    \/ NbSetTrackVars
    \/ NbInitializeSim
    \/ NbSimulate
    \/ NbEvalCFunc
    \/ NbAggregate
    \/ NbPlotAggregate

SpecNotebook == InitNotebook /\ [][NextNotebook]_vars

\* C11: under the example parameters (Rfree = 1.03, no simulated m below
\* the borrowing constraint 0) income (Rfree - 1) * (m - 1) + 1 is strictly
\* positive at every period and agent at which the notebook evaluates the
\* saving rate: the divisor of savRteFunc is never zero or negative, and
\* every value the aggregate expression returns is finite
C11_IncomePositiveUnderExampleParameters ==
    call.fn = "aggregate" =>
        /\ Rfree = Fl(103, 100)
        /\ ret.exc = "none"
        /\ Len(history) = AggRange
        /\ \A t \in 0..(AggRange - 1) :
              LET row == history[t + 1]
                  inc == savRteInc(IndShockExample, Array(row)).data
              IN  \A i \in DOMAIN row :
                      /\ FLe(Zero, row[i])
                      /\ FLt(Zero, inc[i])
                      /\ IncN(Rfree, row[i]) > 0
        /\ \A k \in DOMAIN ret.val.data : IsFinite(ret.val.data[k])

\* the aggregate has been evaluated on a history holding an agent at the
\* borrowing constraint, m = 0, whose income 0.97 is the lowest there is
C11_Witness ==
    /\ pc = "aggregated"
    /\ call.fn = "aggregate" /\ ret.exc = "none"
    /\ \E t \in DOMAIN history : \E i \in DOMAIN history[t] :
          /\ history[t][i] = Zero
          /\ savRteInc(IndShockExample, Array(history[t])).data[i] = Fl(97, 100)

\* C12: the notebook's steps occur in the order construct, solve(),
\* track_vars set (with "mNrm" in it), initialize_sim(), simulate(), and
\* only then the evaluations; savRteFunc is not evaluated, and the
\* aggregate expression reads neither solution nor history["mNrm"], before
\* solve() and simulate() have both completed
C12_NotebookOrder ==
    /\ [][Rank(pc') = Rank(pc) + 1]_vars
    /\ [](/\ (Rank(pc) >= Rank("solved")) <=> (solution # <<>>)
          /\ (Rank(pc) >= Rank("tracked")) <=> ("mNrm" \in track_vars)
          /\ (Rank(pc) >= Rank("simulated")) <=> (history # <<>>)
          /\ call.fn \in {"savRteFunc", "aggregate"} =>
                /\ Rank(pc) > Rank("simulated")
                /\ solution # <<>>
                /\ history # <<>>
                /\ "mNrm" \in track_vars)

\* the aggregate expression has been evaluated, after solve() and simulate()
C12_Witness ==
    /\ pc = "aggregated"
    /\ call.fn = "aggregate" /\ ret.exc = "none"
    /\ Len(solution) = 1
    /\ Len(history) = T_sim
    /\ Len(ret.val.data) = AggRange

====
